---------------------------- MODULE Spec2Model ----------------------------
(***************************************************************************)
(* Slug assignment of khoj's Agent and PublicConversation models           *)
(* (src/src/khoj/database/models/__init__.py).  Each model has a pre_save  *)
(* signal handler that derives instance.slug from a name, probing the      *)
(* table with .filter(slug=...).exists() and appending a random suffix on  *)
(* each collision.  The handlers run in the saving process; the rows live  *)
(* in a shared database, so several saves may interleave between queries.  *)
(*                                                                         *)
(* A Python str is a sequence of one-character strings.                    *)
(***************************************************************************)
EXTENDS Integers, Sequences, FiniteSets, TLC

(***************************************************************************)
(* Bounds of the model.                                                    *)
(***************************************************************************)
\* The source draws the numeric suffix from range(0, 1000) (line 137).  The
\* model draws it from range(0, RandomRange): the loop, the observed set and
\* the exhaustion are the source's, the size of the range is scaled down so
\* that a call can try every value of it.
RandomRange == 3
\* Saves started in one behaviour.
MaxSaves == 2
\* Length of the free part of an enumerated name.
MaxLen == 3
\* Number of distinct 7-character tokens random generation is sampled from.
NumTokens == 2

\* ProcessLock rows created in a run.
MaxLocks == 3

\* Entries of a conversation log.
MaxLog == 5

\* Entries of a list of references.
MaxRefs == 3

\* Rows created in a run of DeleteSpec.
MaxRows == 4

(***************************************************************************)
(* Program constants.                                                      *)
(***************************************************************************)
SlugMaxLen == 50
TokenLen == 7
\* Agent.name and Agent.slug are CharField(max_length=200), lines 102 and 109;
\* PublicConversation.slug is CharField(max_length=200), line 269.
NameMaxLen == 200
SlugFieldLen == 200
ConvSlugFieldLen == 200
\* The slice [-4:] of claude.py, line 31.
HistoryWindow == 4

(***************************************************************************)
(* Characters and Python's string operations.                              *)
(***************************************************************************)
Digits == <<"0", "1", "2", "3", "4", "5", "6", "7", "8", "9">>

LowerLetters ==
    <<"a", "b", "c", "d", "e", "f", "g", "h", "i", "j", "k", "l", "m",
      "n", "o", "p", "q", "r", "s", "t", "u", "v", "w", "x", "y", "z">>

UpperLetters ==
    <<"A", "B", "C", "D", "E", "F", "G", "H", "I", "J", "K", "L", "M",
      "N", "O", "P", "Q", "R", "S", "T", "U", "V", "W", "X", "Y", "Z">>

\* characters = "0123456789abcdefghijklmnopqrstuvwxyz"
characters == Digits \o LowerLetters

Range(s) == {s[i] : i \in 1..Len(s)}

Min(a, b) == IF a < b THEN a ELSE b

\* The lower-case letter of each upper-case letter.
LowerOf ==
    [c \in Range(UpperLetters) |->
        LowerLetters[CHOOSE i \in 1..Len(UpperLetters) : UpperLetters[i] = c]]

\* str.lower() on one character.
LowerChar(c) == IF c \in DOMAIN LowerOf THEN LowerOf[c] ELSE c

\* str.lower()
Lower(s) == [i \in 1..Len(s) |-> LowerChar(s[i])]

\* Replace that stops after the first occurrence: str.replace(old, new, 1).
ReplaceFirst(s, old, new) ==
    [i \in 1..Len(s) |->
        IF s[i] = old /\ \A j \in 1..(i - 1) : s[j] # old THEN new ELSE s[i]]

\* str.replace(old, new) for one-character old and new.
Replace(s, old, new) == [i \in 1..Len(s) |-> IF s[i] = old THEN new ELSE s[i]]

\* \w of Python's re on str: letters, digits and the underscore.
WordChars ==
    Range(LowerLetters) \cup Range(UpperLetters) \cup Range(Digits) \cup {"_"}

IsWordChar(c) == c \in WordChars

\* MatchEnd for \W in place of \W+: a match is one character long.
MatchEndOne(s, i) == i + 1

\* The end of the match of \W+ that starts at position i: the first position
\* after i that holds a word character, or Len(s) + 1.
RECURSIVE MatchEnd(_, _)
MatchEnd(s, i) ==
    IF i > Len(s) \/ IsWordChar(s[i]) THEN i ELSE MatchEnd(s, i + 1)

\* re.sub(r"\W+", "-", s) from position i on: scan left to right, copy a word
\* character, replace each leftmost longest match by one hyphen.
RECURSIVE SubFrom(_, _)
SubFrom(s, i) ==
    IF i > Len(s) THEN <<>>
    ELSE IF IsWordChar(s[i]) THEN <<s[i]>> \o SubFrom(s, i + 1)
    ELSE <<"-">> \o SubFrom(s, MatchEnd(s, i))

ReSubNonWord(s) == SubFrom(s, 1)

\* s[:n]
Truncate(s, n) == SubSeq(s, 1, Min(n, Len(s)))

\* str(n) of a non-negative int, as the f-string formats it.
RECURSIVE Str(_)
Str(n) ==
    IF n < 10 THEN <<Digits[n + 1]>>
    ELSE Str(n \div 10) \o <<Digits[(n % 10) + 1]>>

\* WithSuffix without the hyphen: f"{slug}{suffix}".
WithSuffixNoHyphen(s, suffix) == s \o suffix

\* f"{slug}-{suffix}"
WithSuffix(s, suffix) == s \o <<"-">> \o suffix

\* instance.name.lower().replace(" ", "-")
AgentBaseSlug(name) == Replace(Lower(name), " ", "-")

\* re.sub(r"\W+", "-", instance.slug.lower())[:50]
ConvBaseSlug(s) == Truncate(ReSubNonWord(Lower(s)), SlugMaxLen)

\* AvailableNumbers without the filter on the numbers already observed.
AvailableNumbersUnfiltered(obs) == 0..(RandomRange - 1)

\* [i for i in range(0, 1000) if i not in observed_random_numbers]
AvailableNumbers(obs) == {i \in 0..(RandomRange - 1) : i \notin obs}

\* A choice that draws its index from 0..len(seq), one past the end: it can
\* raise IndexError on any seq.
ChoicePastEnd(seq) == Len(seq) >= 0

\* random.choice(seq) raises IndexError exactly when seq is empty.
ChoiceRaisesIndexError(seq) == Len(seq) = 0

\* generate_random_alphanumeric(length) raises when it calls choice at least
\* once and choice raises.
TokenGenerationRaises(length) == length > 0 /\ ChoiceRaisesIndexError(characters)

\* generate_random_alphanumeric(length): "".join(choice(characters) for _ in
\* range(length)).  Every string of that length over characters is a possible
\* result; the model samples NumTokens of them.
GenerateRandomAlphanumeric(length) ==
    {[i \in 1..length |-> characters[((k * 11 + i * (k + 1)) % Len(characters)) + 1]] :
        k \in 0..(NumTokens - 1)}


(***************************************************************************)
(* State.                                                                  *)
(***************************************************************************)
VARIABLES
    agents,     \* the Agent table: a set of rows [id, name, creator, public, slug]
    convs,      \* the PublicConversation table: a set of rows [id, slug]
    lastId,     \* the last primary key each table handed out
    requests,   \* what the callers may ask for: records [name, creator, public]
    serial,     \* TRUE when the callers start a save only while no other runs
    budget,     \* saves that may still be started
    pc,         \* per process: where its save() stands
    inst,       \* per process: the instance being saved
    slug,       \* per process: the handler's local variable slug
    observed,   \* per process: observed_random_numbers / observed_random_id
    trace,      \* per process: the existence checks of the call, in order
    arg,        \* per process: the name the call's slug derives from, as passed
    err,        \* per process: the exception that ended the call
    locks,      \* the ProcessLock table: a set of rows [id, name]
    lockId,     \* the last primary key the ProcessLock table handed out
    holds,      \* per process: the operations whose lock row it created
    attempt,    \* per process: its last ProcessLock create, [name, ok]
    epc,        \* where the call of extract_questions_anthropic stands
    text,       \* extract_questions_anthropic: the user's message
    response,   \* extract_questions_anthropic: what completion_with_backoff returned
    questions,  \* extract_questions_anthropic: the list it returns
    hpc,        \* where the chat-history loop of extract_questions_anthropic stands
    conversation_log,   \* extract_questions_anthropic: the chat list of the log
    chat_history,       \* extract_questions_anthropic: the lines appended so far
    hidx,       \* the index in the log of the entry the loop is at
    cpc,        \* where the call of converse_anthropic stands
    references, \* converse_anthropic: the list passed as references
    compiled_order,         \* the blocks, in the order join iterated the set
    compiled_references,    \* converse_anthropic: the joined string
    conversation_primer,    \* converse_anthropic: [kind, references]
    passed_references,      \* what the completion call got as compiled_references
    users,      \* the KhojUser table: a set of primary keys
    agentRows,  \* the Agent table by key: a set of rows [id, creator]
    conversations,          \* the Conversation table: rows [id, user, agent, orig]
    publicConversations,    \* PublicConversation by key: rows [id, source_owner, agent, orig]
    configs,    \* the one-to-one config tables: rows [id, kind, user]
    rowCount    \* rows created so far; the next primary key is rowCount + 1

\* The variables of the slug handlers, of ProcessLock, of the two functions of
\* claude.py, and of the rows and their foreign keys.
slugVars ==
    <<agents, convs, lastId, requests, serial, budget, pc, inst, slug, observed, trace, arg, err>>
lockVars == <<locks, lockId, holds, attempt>>
llmVars == <<epc, text, response, questions>>
histVars == <<hpc, conversation_log, chat_history, hidx>>
chatVars ==
    <<cpc, references, compiled_order, compiled_references, conversation_primer,
      passed_references>>
relVars == <<users, agentRows, conversations, publicConversations, configs, rowCount>>

vars == <<slugVars, lockVars, llmVars, histVars, chatVars, relVars>>

Procs == {"p1", "p2"}

\* Agent.creator is a nullable foreign key: a user, or null for an agent the
\* admin manages.
NoCreator == "null"
Creators == {NoCreator, "u1", "u2"}

\* PublicConversation.slug has default=None.
None == <<"None">>

\* No instance in hand.  pk is the primary key of the instance (0 before the
\* INSERT), adding is instance._state.adding.
NoInst ==
    [model |-> "none", name |-> <<>>, creator |-> NoCreator, public |-> FALSE, slug |-> <<>>,
     pk |-> 0, adding |-> TRUE]

AgentSlugs == {a.slug : a \in agents}
ConvSlugs == {c.slug : c \in convs}

\* The public-name check narrowed to the public agents managed by the admin.
PublicNameExistsAdminOnly(name) ==
    \E a \in agents : a.name = name /\ a.public /\ a.creator = NoCreator

\* Agent.objects.filter(name=name, public=True).exists()
PublicNameExists(name) == \E a \in agents : a.name = name /\ a.public

\* The same-creator check with SQL's comparison, under which null equals
\* nothing: creator = NULL instead of creator IS NULL.
PrivateNameExistsNullUnequal(name, creator) ==
    \E a \in agents : a.name = name /\ a.creator = creator /\ creator # NoCreator

\* Agent.objects.filter(name=name, creator=creator).exists()
PrivateNameExists(name, creator) == \E a \in agents : a.name = name /\ a.creator = creator

\* AgentSlugExists with the probe narrowed to public agents.
AgentSlugExistsPublicOnly(s) == \E a \in agents : a.slug = s /\ a.public

\* Agent.objects.filter(slug=slug).exists()
AgentSlugExists(s) == \E a \in agents : a.slug = s

\* ConvSlugExists probing the Agent table, as the handler it was copied from.
ConvSlugExistsInAgents(s) == \E a \in agents : a.slug = s

\* PublicConversation.objects.filter(slug=slug).exists()
ConvSlugExists(s) == \E c \in convs : c.slug = s

\* raise: the handler ends, save() does not reach the INSERT.
Raise(p, e) ==
    /\ pc' = [pc EXCEPT ![p] = "failed"]
    /\ err' = [err EXCEPT ![p] = e]

\* A save may start: the budget allows it and, when the callers serialize
\* their saves, no other process is inside save().
CanStart(p) ==
    /\ pc[p] = "idle"
    /\ budget > 0
    /\ serial => \A q \in Procs \ {p} : pc[q] = "idle"

Checked(p, s, found) == trace' = [trace EXCEPT ![p] = Append(@, [slug |-> s, exists |-> found])]

(***************************************************************************)
(* Agent(...).save(): pre_save runs verify_agent, then the row is inserted. *)
(***************************************************************************)
\* A process starts saving a new Agent (instance._state.adding is True).
AgentSave(p, name, creator, public) ==
    /\ CanStart(p)
    /\ budget' = budget - 1
    /\ inst' = [inst EXCEPT ![p] = [model |-> "Agent", name |-> name, creator |-> creator,
                                    public |-> public, slug |-> <<>>,
                                    pk |-> 0, adding |-> TRUE]]
    /\ arg' = [arg EXCEPT ![p] = name]
    /\ pc' = [pc EXCEPT ![p] = "agent_check_public"]
    /\ UNCHANGED <<agents, convs, lastId, requests, serial, slug, observed, trace, err, lockVars, llmVars, histVars, chatVars, relVars>>

\* Lines 128-129.
AgentCheckPublic(p) ==
    /\ pc[p] = "agent_check_public"
    /\ IF PublicNameExists(inst[p].name)
       THEN Raise(p, "PublicNameExists")
       ELSE pc' = [pc EXCEPT ![p] = "agent_check_private"] /\ UNCHANGED err
    /\ UNCHANGED <<agents, convs, lastId, requests, serial, budget, inst, slug, observed, trace, arg, lockVars, llmVars, histVars, chatVars, relVars>>

\* The same-creator check skipped for an Agent that is created public.
AgentCheckPrivatePublicExempt(p) ==
    /\ pc[p] = "agent_check_private"
    /\ IF ~inst[p].public /\ PrivateNameExists(inst[p].name, inst[p].creator)
       THEN Raise(p, "PrivateNameExists") /\ UNCHANGED <<slug, observed>>
       ELSE /\ slug' = [slug EXCEPT ![p] = AgentBaseSlug(inst[p].name)]
            /\ observed' = [observed EXCEPT ![p] = {}]
            /\ pc' = [pc EXCEPT ![p] = "agent_loop"]
            /\ UNCHANGED err
    /\ UNCHANGED <<agents, convs, lastId, requests, serial, budget, inst, trace, arg, lockVars, llmVars, histVars, chatVars, relVars>>

\* Lines 130-134.
AgentCheckPrivate(p) ==
    /\ pc[p] = "agent_check_private"
    /\ IF PrivateNameExists(inst[p].name, inst[p].creator)
       THEN Raise(p, "PrivateNameExists") /\ UNCHANGED <<slug, observed>>
       ELSE /\ slug' = [slug EXCEPT ![p] = AgentBaseSlug(inst[p].name)]
            /\ observed' = [observed EXCEPT ![p] = {}]
            /\ pc' = [pc EXCEPT ![p] = "agent_loop"]
            /\ UNCHANGED err
    /\ UNCHANGED <<agents, convs, lastId, requests, serial, budget, inst, trace, arg, lockVars, llmVars, histVars, chatVars, relVars>>

\* AgentLoopRetry with "if" where the source has "while": the first suffixed
\* slug is assigned without a check of its own.
AgentLoopRetryOnce(p) ==
    /\ pc[p] = "agent_loop"
    /\ \E a \in agents : a.slug = slug[p]
    /\ \E random_number \in 0..(RandomRange - 1) :
          /\ observed' = [observed EXCEPT ![p] = @ \cup {random_number}]
          /\ slug' = [slug EXCEPT ![p] = @ \o <<"-">> \o Str(random_number)]
          /\ inst' = [inst EXCEPT ![p].slug = slug[p] \o <<"-">> \o Str(random_number)]
    /\ pc' = [pc EXCEPT ![p] = "agent_insert"]
    /\ trace' = [trace EXCEPT ![p] = Append(@, [slug |-> slug[p], exists |-> TRUE])]
    /\ UNCHANGED <<agents, convs, lastId, requests, serial, budget, arg, err, lockVars, llmVars, histVars, chatVars, relVars>>

\* Lines 135-141, the slug exists and a number is left to draw.
AgentLoopRetry(p) ==
    /\ pc[p] = "agent_loop"
    /\ AgentSlugExists(slug[p])
    /\ \E random_number \in AvailableNumbers(observed[p]) :
          /\ observed' = [observed EXCEPT ![p] = @ \cup {random_number}]
          /\ slug' = [slug EXCEPT ![p] = WithSuffix(@, Str(random_number))]
    /\ Checked(p, slug[p], TRUE)
    /\ UNCHANGED <<agents, convs, lastId, requests, serial, budget, pc, inst, arg, err, lockVars, llmVars, histVars, chatVars, relVars>>

\* Lines 135-139, the slug exists and choice([]) raises IndexError.
AgentLoopExhausted(p) ==
    /\ pc[p] = "agent_loop"
    /\ AgentSlugExists(slug[p])
    /\ AvailableNumbers(observed[p]) = {}
    /\ Raise(p, "SlugExhausted")
    /\ Checked(p, slug[p], TRUE)
    /\ UNCHANGED <<agents, convs, lastId, requests, serial, budget, inst, slug, observed, arg, lockVars, llmVars, histVars, chatVars, relVars>>

\* A handler that reserves the slug it assigns by storing a row for it.
AgentLoopAssignReserving(p) ==
    /\ pc[p] = "agent_loop"
    /\ ~AgentSlugExists(slug[p])
    /\ inst' = [inst EXCEPT ![p].slug = slug[p]]
    /\ pc' = [pc EXCEPT ![p] = "agent_insert"]
    /\ Checked(p, slug[p], FALSE)
    /\ lastId' = [lastId EXCEPT !.Agent = @ + 1]
    /\ agents' = agents \cup {[id |-> lastId.Agent + 1, name |-> <<>>,
                              creator |-> NoCreator, public |-> FALSE, slug |-> slug[p]]}
    /\ UNCHANGED <<convs, requests, serial, budget, slug, observed, arg, err, lockVars, llmVars, histVars, chatVars, relVars>>

\* Lines 135 and 142: the loop ends, instance.slug = slug.
AgentLoopAssign(p) ==
    /\ pc[p] = "agent_loop"
    /\ ~AgentSlugExists(slug[p])
    /\ inst' = [inst EXCEPT ![p].slug = slug[p]]
    /\ pc' = [pc EXCEPT ![p] = "agent_insert"]
    /\ Checked(p, slug[p], FALSE)
    /\ UNCHANGED <<agents, convs, lastId, requests, serial, budget, slug, observed, arg, err, lockVars, llmVars, histVars, chatVars, relVars>>

\* AgentInsert against a slug column declared unique=True: the INSERT of a
\* slug that is already stored is refused.
AgentInsertUnique(p) ==
    /\ pc[p] = "agent_insert"
    /\ ~(\E a \in agents : a.slug = inst[p].slug)
    /\ lastId' = [lastId EXCEPT !.Agent = @ + 1]
    /\ agents' = agents \cup {[id |-> lastId.Agent + 1, name |-> inst[p].name,
                              creator |-> inst[p].creator, public |-> inst[p].public,
                              slug |-> inst[p].slug]}
    /\ pc' = [pc EXCEPT ![p] = "saved"]
    /\ UNCHANGED <<convs, requests, serial, budget, inst, slug, observed, trace, arg, err, lockVars, llmVars, histVars, chatVars, relVars>>

\* The INSERT of save().  Agent.slug is a CharField without unique=True: the
\* database accepts any slug.
AgentInsert(p) ==
    /\ pc[p] = "agent_insert"
    /\ lastId' = [lastId EXCEPT !.Agent = @ + 1]
    /\ agents' = agents \cup {[id |-> lastId.Agent + 1, name |-> inst[p].name,
                              creator |-> inst[p].creator, public |-> inst[p].public,
                              slug |-> inst[p].slug]}
    /\ pc' = [pc EXCEPT ![p] = "saved"]
    /\ UNCHANGED <<convs, requests, serial, budget, inst, slug, observed, trace, arg, err, lockVars, llmVars, histVars, chatVars, relVars>>

(***************************************************************************)
(* PublicConversation(...).save(): pre_save runs                           *)
(* verify_public_conversation, then the row is inserted.                   *)
(***************************************************************************)
\* A process starts saving a new PublicConversation whose slug field holds s;
\* line 282 computes the base slug.
ConvSave(p, s) ==
    /\ CanStart(p)
    /\ budget' = budget - 1
    /\ inst' = [inst EXCEPT ![p] = [NoInst EXCEPT !.model = "PublicConversation", !.slug = s]]
    /\ arg' = [arg EXCEPT ![p] = s]
    /\ slug' = [slug EXCEPT ![p] = ConvBaseSlug(s)]
    /\ observed' = [observed EXCEPT ![p] = {}]
    /\ pc' = [pc EXCEPT ![p] = "conv_loop"]
    /\ UNCHANGED <<agents, convs, lastId, requests, serial, trace, err, lockVars, llmVars, histVars, chatVars, relVars>>

\* The slug field was left at its default: None.lower() raises AttributeError.
ConvSaveNone(p) ==
    /\ CanStart(p)
    /\ budget' = budget - 1
    /\ inst' = [inst EXCEPT ![p] = [NoInst EXCEPT !.model = "PublicConversation", !.slug = None]]
    /\ arg' = [arg EXCEPT ![p] = None]
    /\ Raise(p, "AttributeError")
    /\ UNCHANGED <<agents, convs, lastId, requests, serial, slug, observed, trace, lockVars, llmVars, histVars, chatVars, relVars>>

\* A retry that appends the token to the base slug: every candidate after the
\* first is one of finitely many strings, all of which the table may hold.
ConvLoopRetryFromBase(p) ==
    /\ pc[p] = "conv_loop"
    /\ ConvSlugExists(slug[p])
    /\ \E random_id \in GenerateRandomAlphanumeric(TokenLen) :
          /\ observed' = [observed EXCEPT ![p] = @ \cup {random_id}]
          /\ slug' = [slug EXCEPT ![p] = WithSuffix(ConvBaseSlug(arg[p]), random_id)]
    /\ Checked(p, slug[p], TRUE)
    /\ UNCHANGED <<agents, convs, lastId, requests, serial, budget, pc, inst, arg, err, lockVars, llmVars, histVars, chatVars, relVars>>

\* Lines 284-292, the slug exists: a token is generated and appended, or the
\* generation raises IndexError and lines 287-290 turn it into the
\* ValidationError "Unable to generate a unique slug".
ConvLoopRetry(p) ==
    /\ pc[p] = "conv_loop"
    /\ ConvSlugExists(slug[p])
    /\ IF TokenGenerationRaises(TokenLen)
       THEN Raise(p, "ConvSlugExhausted") /\ UNCHANGED <<observed, slug>>
       ELSE /\ \E random_id \in GenerateRandomAlphanumeric(TokenLen) :
                  /\ observed' = [observed EXCEPT ![p] = @ \cup {random_id}]
                  /\ slug' = [slug EXCEPT ![p] = WithSuffix(@, random_id)]
            /\ UNCHANGED <<pc, err>>
    /\ Checked(p, slug[p], TRUE)
    /\ UNCHANGED <<agents, convs, lastId, requests, serial, budget, inst, arg, lockVars, llmVars, histVars, chatVars, relVars>>

\* Lines 284 and 293: the loop ends, instance.slug = slug.
ConvLoopAssign(p) ==
    /\ pc[p] = "conv_loop"
    /\ ~ConvSlugExists(slug[p])
    /\ inst' = [inst EXCEPT ![p].slug = slug[p]]
    /\ pc' = [pc EXCEPT ![p] = "conv_insert"]
    /\ Checked(p, slug[p], FALSE)
    /\ UNCHANGED <<agents, convs, lastId, requests, serial, budget, slug, observed, arg, err, lockVars, llmVars, histVars, chatVars, relVars>>

\* The INSERT of save(); PublicConversation.slug is not unique either.
ConvInsert(p) ==
    /\ pc[p] = "conv_insert"
    /\ lastId' = [lastId EXCEPT !.PublicConversation = @ + 1]
    /\ convs' = convs \cup {[id |-> lastId.PublicConversation + 1, slug |-> inst[p].slug]}
    /\ pc' = [pc EXCEPT ![p] = "saved"]
    /\ UNCHANGED <<agents, requests, serial, budget, inst, slug, observed, trace, arg, err, lockVars, llmVars, histVars, chatVars, relVars>>

\* save() has returned or raised: the process is free for its next request.
Finish(p) ==
    /\ pc[p] \in {"saved", "failed"}
    /\ pc' = [pc EXCEPT ![p] = "idle"]
    /\ inst' = [inst EXCEPT ![p] = NoInst]
    /\ slug' = [slug EXCEPT ![p] = <<>>]
    /\ observed' = [observed EXCEPT ![p] = {}]
    /\ trace' = [trace EXCEPT ![p] = <<>>]
    /\ arg' = [arg EXCEPT ![p] = <<>>]
    /\ err' = [err EXCEPT ![p] = "none"]
    /\ UNCHANGED <<agents, convs, lastId, requests, serial, budget, lockVars, llmVars, histVars, chatVars, relVars>>

(***************************************************************************)
(* save() of a row that is already stored: instance._state.adding is       *)
(* False, the body of either handler is skipped (lines 127 and 281), and    *)
(* save() writes the instance's fields to its row with an UPDATE.           *)
(***************************************************************************)
\* The handler recomputing the base slug of a stored Agent from its new name.
AgentResaveRecomputed(p, a, name) ==
    /\ CanStart(p)
    /\ a \in agents
    /\ budget' = budget - 1
    /\ inst' = [inst EXCEPT ![p] = [model |-> "Agent", name |-> name, creator |-> a.creator,
                                    public |-> a.public, slug |-> AgentBaseSlug(name),
                                    pk |-> a.id, adding |-> FALSE]]
    /\ arg' = [arg EXCEPT ![p] = name]
    /\ pc' = [pc EXCEPT ![p] = "agent_update"]
    /\ UNCHANGED <<agents, convs, lastId, requests, serial, slug, observed, trace, err, lockVars, llmVars, histVars, chatVars, relVars>>

\* A process loads the stored Agent a, sets its name and saves it:
\* verify_agent runs with adding False and returns at line 127.
AgentResave(p, a, name) ==
    /\ CanStart(p)
    /\ a \in agents
    /\ budget' = budget - 1
    /\ inst' = [inst EXCEPT ![p] = [model |-> "Agent", name |-> name, creator |-> a.creator,
                                    public |-> a.public, slug |-> a.slug,
                                    pk |-> a.id, adding |-> FALSE]]
    /\ arg' = [arg EXCEPT ![p] = name]
    /\ pc' = [pc EXCEPT ![p] = "agent_update"]
    /\ UNCHANGED <<agents, convs, lastId, requests, serial, slug, observed, trace, err, lockVars, llmVars, histVars, chatVars, relVars>>

\* The UPDATE of save(): the row of the instance's primary key takes the
\* instance's fields.
AgentUpdate(p) ==
    /\ pc[p] = "agent_update"
    /\ agents' = {IF a.id = inst[p].pk
                  THEN [id |-> a.id, name |-> inst[p].name, creator |-> inst[p].creator,
                        public |-> inst[p].public, slug |-> inst[p].slug]
                  ELSE a : a \in agents}
    /\ pc' = [pc EXCEPT ![p] = "saved"]
    /\ UNCHANGED <<convs, lastId, requests, serial, budget, inst, slug, observed, trace, arg, err, lockVars, llmVars, histVars, chatVars, relVars>>

\* A process loads the stored PublicConversation c and saves it again:
\* verify_public_conversation runs with adding False and returns at line 281.
ConvResave(p, c) ==
    /\ CanStart(p)
    /\ c \in convs
    /\ budget' = budget - 1
    /\ inst' = [inst EXCEPT ![p] = [NoInst EXCEPT !.model = "PublicConversation",
                                                  !.slug = c.slug, !.pk = c.id,
                                                  !.adding = FALSE]]
    /\ arg' = [arg EXCEPT ![p] = c.slug]
    /\ pc' = [pc EXCEPT ![p] = "conv_update"]
    /\ UNCHANGED <<agents, convs, lastId, requests, serial, slug, observed, trace, err, lockVars, llmVars, histVars, chatVars, relVars>>

\* The UPDATE of save().
ConvUpdate(p) ==
    /\ pc[p] = "conv_update"
    /\ convs' = {IF c.id = inst[p].pk THEN [id |-> c.id, slug |-> inst[p].slug] ELSE c :
                    c \in convs}
    /\ pc' = [pc EXCEPT ![p] = "saved"]
    /\ UNCHANGED <<agents, lastId, requests, serial, budget, inst, slug, observed, trace, arg, err, lockVars, llmVars, histVars, chatVars, relVars>>

\* The steps of a save of a stored row.
StepEdit(p) ==
    \/ \E a \in agents, r \in requests : AgentResave(p, a, r.name)
    \/ AgentUpdate(p)
    \/ \E c \in convs : ConvResave(p, c)
    \/ ConvUpdate(p)

Step(p) ==
    \/ \E r \in requests : AgentSave(p, r.name, r.creator, r.public)
    \/ AgentCheckPublic(p)
    \/ AgentCheckPrivate(p)
    \/ AgentLoopRetry(p)
    \/ AgentLoopExhausted(p)
    \/ AgentLoopAssign(p)
    \/ AgentInsert(p)
    \/ \E r \in requests : ConvSave(p, r.name)
    \/ ConvSaveNone(p)
    \/ ConvLoopRetry(p)
    \/ ConvLoopAssign(p)
    \/ ConvInsert(p)
    \/ Finish(p)

(***************************************************************************)
(* ProcessLock: one row per running operation.  The name column is          *)
(* declared unique=True (line 119), so the database refuses the INSERT of a *)
(* name that is already stored.  A process acquires the lock of an          *)
(* operation by creating its row and gives it up by deleting the row.       *)
(***************************************************************************)
\* ProcessLock.Operation, lines 113-115.
Operations == {"index_content", "scheduled_job"}

NoAttempt == [name |-> "none", ok |-> FALSE]

LockNameExists(name) == \E l \in locks : l.name = name

\* The INSERT against a name column without the unique constraint.
LockCreateNoUnique(p, name) ==
    /\ lockId < MaxLocks
    /\ lockId' = lockId + 1
    /\ locks' = locks \cup {[id |-> lockId + 1, name |-> name]}
    /\ holds' = [holds EXCEPT ![p] = @ \cup {name}]
    /\ attempt' = [attempt EXCEPT ![p] = [name |-> name, ok |-> TRUE]]
    /\ UNCHANGED <<slugVars, llmVars, histVars, chatVars, relVars>>

\* ProcessLock.objects.create(name=name) when no row has the name: the row is
\* inserted and the process holds the lock.
LockCreate(p, name) ==
    /\ lockId < MaxLocks
    /\ ~LockNameExists(name)
    /\ lockId' = lockId + 1
    /\ locks' = locks \cup {[id |-> lockId + 1, name |-> name]}
    /\ holds' = [holds EXCEPT ![p] = @ \cup {name}]
    /\ attempt' = [attempt EXCEPT ![p] = [name |-> name, ok |-> TRUE]]
    /\ UNCHANGED <<slugVars, llmVars, histVars, chatVars, relVars>>

\* ProcessLock.objects.create(name=name) when a row has the name: the unique
\* constraint refuses the INSERT with IntegrityError.
LockCreateRefused(p, name) ==
    /\ LockNameExists(name)
    /\ attempt' = [attempt EXCEPT ![p] = [name |-> name, ok |-> FALSE]]
    /\ UNCHANGED <<locks, lockId, holds, slugVars, llmVars, histVars, chatVars, relVars>>

\* The holder deletes its row: ProcessLock.objects.filter(name=name).delete().
LockRelease(p, name) ==
    /\ name \in holds[p]
    /\ locks' = {l \in locks : l.name # name}
    /\ holds' = [holds EXCEPT ![p] = @ \ {name}]
    /\ attempt' = [attempt EXCEPT ![p] = NoAttempt]
    /\ UNCHANGED <<lockId, slugVars, llmVars, histVars, chatVars, relVars>>

LockInit ==
    /\ locks = {}
    /\ lockId = 0
    /\ holds = [p \in Procs |-> {}]
    /\ attempt = [p \in Procs |-> NoAttempt]

(***************************************************************************)
(* extract_questions_anthropic (claude.py): the prompt is sent with         *)
(* completion_with_backoff and the response is turned into a list of        *)
(* questions, lines 63-78.                                                  *)
(***************************************************************************)
\* str.lstrip(chars) and str.rstrip(chars).
RECURSIVE LStrip(_, _)
LStrip(s, chars) ==
    IF s # <<>> /\ Head(s) \in chars THEN LStrip(Tail(s), chars) ELSE s

RECURSIVE RStrip(_, _)
RStrip(s, chars) ==
    IF s # <<>> /\ s[Len(s)] \in chars THEN RStrip(SubSeq(s, 1, Len(s) - 1), chars) ELSE s

\* str.strip(chars)
Strip(s, chars) == RStrip(LStrip(s, chars), chars)

\* str.replace(old, new) for a non-empty old: the occurrences are found from
\* the left and do not overlap.
RECURSIVE ReplaceStr(_, _, _)
ReplaceStr(s, old, new) ==
    IF Len(s) < Len(old) THEN s
    ELSE IF SubSeq(s, 1, Len(old)) = old
         THEN new \o ReplaceStr(SubSeq(s, Len(old) + 1, Len(s)), old, new)
         ELSE <<Head(s)>> \o ReplaceStr(Tail(s), old, new)

\* The pieces of s between the occurrences of sep; cur is the piece being read.
RECURSIVE SplitFrom(_, _, _)
SplitFrom(s, sep, cur) ==
    IF Len(s) < Len(sep) THEN <<cur \o s>>
    ELSE IF SubSeq(s, 1, Len(sep)) = sep
         THEN <<cur>> \o SplitFrom(SubSeq(s, Len(sep) + 1, Len(s)), sep, <<>>)
         ELSE SplitFrom(Tail(s), sep, Append(cur, Head(s)))

\* A split that drops the empty pieces, as str.split() without a separator does.
SplitSkipEmpty(s, sep) == SelectSeq(SplitFrom(s, sep, <<>>), LAMBDA x : x # <<>>)

\* str.split(sep)
Split(s, sep) == SplitFrom(s, sep, <<>>)

\* The possible values of empty_escape_sequences, which claude.py imports from
\* khoj.utils.constants: a set of characters to strip.
EscapeSets == {{}, {" "}, {" ", "|", "\n"}}

\* Lines 66-72.
PostProcess(content, esc) ==
    LET stripped == Strip(content, esc)
        r1 == ReplaceStr(stripped, <<"[", "'">>, <<"[", "\"">>)
        r2 == ReplaceStr(r1, <<"'", "]">>, <<"\"", "]">>)
        r3 == ReplaceStr(r2, <<"'", ",", " ", "'">>, <<"\"", ",", " ", "\"">>)
        r4 == ReplaceStr(r3, <<"[", "\"">>, <<>>)
        r5 == ReplaceStr(r4, <<"\"", "]">>, <<>>)
    IN  Split(r5, <<"\"", ",", " ", "\"">>)

\* The characters a response is made of in the model.
ResponseChars == {"[", "]", "'", "\"", ",", " ", "q"}

\* The response of the model as the list literal of two questions, in single
\* and in double quotes, padded with blanks.
TwoQuestions(quote) ==
    <<" ", "[", quote, "q", quote, ",", " ", quote, "q", "q", quote, "]", " ">>

\* What completion_with_backoff may return: an object whose content is a
\* string, or one whose content cannot be stripped (ok is FALSE).
Responses ==
    {[ok |-> TRUE, content |-> c] :
        c \in UNION {[1..k -> ResponseChars] : k \in 0..MaxLen}
              \cup {TwoQuestions("'"), TwoQuestions("\"")}}
    \cup {[ok |-> FALSE, content |-> <<>>]}

Texts == {<<"q">>, <<"q", " ", "q", "q">>}

\* Lines 22-61: the function is called with the user's message and
\* completion_with_backoff returns.
ExtractCall(t, r) ==
    /\ epc = "idle"
    /\ epc' = "called"
    /\ text' = t
    /\ response' = r
    /\ UNCHANGED <<questions, slugVars, lockVars, histVars, chatVars, relVars>>

\* Lines 64-73 and 78: the expression of the try block is evaluated.
ExtractParse ==
    /\ epc = "called"
    /\ response.ok
    /\ \E esc \in EscapeSets : questions' = PostProcess(response.content, esc)
    /\ epc' = "returned"
    /\ UNCHANGED <<text, response, slugVars, lockVars, histVars, chatVars, relVars>>

\* Lines 74-78: the try block raised.
ExtractFallback ==
    /\ epc = "called"
    /\ ~response.ok
    /\ questions' = <<text>>
    /\ epc' = "returned"
    /\ UNCHANGED <<text, response, slugVars, lockVars, histVars, chatVars, relVars>>

ExtractInit ==
    /\ epc = "idle"
    /\ text = <<>>
    /\ response = [ok |-> FALSE, content |-> <<>>]
    /\ questions = <<>>

(***************************************************************************)
(* extract_questions_anthropic, lines 28-34: the chat history of the       *)
(* prompt is built from the conversation log.  An entry of the log is a    *)
(* record [by, query, message], query standing for chat["intent"]["query"]; *)
(* the history is the list of the lines appended to chat_history.          *)
(***************************************************************************)
\* The slice [0:]: the whole log.
SliceStartWhole(log) == 1

\* conversation_log.get("chat", [])[-4:] starts at this index of the log.
SliceStart(log) == IF Len(log) > HistoryWindow THEN Len(log) - HistoryWindow + 1 ELSE 1

\* The log entries of the model: two by khoj and one by the user.
Entries ==
    {[by |-> "khoj", query |-> "q1", message |-> "m1"],
     [by |-> "khoj", query |-> "q2", message |-> "m2"],
     [by |-> "you", query |-> "q3", message |-> "m3"]}

Logs == UNION {[1..k -> Entries] : k \in 0..MaxLog}

\* Lines 28-31: the function is called with a conversation log and the loop
\* over the slice starts.
HistoryStart(log) ==
    /\ hpc = "idle"
    /\ hpc' = "loop"
    /\ conversation_log' = log
    /\ chat_history' = <<>>
    /\ hidx' = SliceStart(log)
    /\ UNCHANGED <<slugVars, lockVars, llmVars, chatVars, relVars>>

\* Lines 32-34: the entry is by khoj, two lines are appended.
HistoryAppend ==
    /\ hpc = "loop"
    /\ hidx <= Len(conversation_log)
    /\ conversation_log[hidx].by = "khoj"
    /\ chat_history' = chat_history \o
            <<[speaker |-> "Human", line |-> conversation_log[hidx].query],
              [speaker |-> "Assisstant", line |-> conversation_log[hidx].message]>>
    /\ hidx' = hidx + 1
    /\ UNCHANGED <<hpc, conversation_log, slugVars, lockVars, llmVars, chatVars, relVars>>

\* Line 32: the entry is not by khoj.
HistorySkip ==
    /\ hpc = "loop"
    /\ hidx <= Len(conversation_log)
    /\ conversation_log[hidx].by # "khoj"
    /\ hidx' = hidx + 1
    /\ UNCHANGED <<hpc, conversation_log, chat_history, slugVars, lockVars, llmVars, chatVars, relVars>>

\* The loop has gone through the slice.
HistoryDone ==
    /\ hpc = "loop"
    /\ hidx > Len(conversation_log)
    /\ hpc' = "done"
    /\ UNCHANGED <<conversation_log, chat_history, hidx, slugVars, lockVars, llmVars, chatVars, relVars>>

HistoryInit ==
    /\ hpc = "idle"
    /\ conversation_log = <<>>
    /\ chat_history = <<>>
    /\ hidx = 1

(***************************************************************************)
(* converse_anthropic (claude.py, lines 81-123): the references are        *)
(* compiled, the conversation primer is chosen and the completion is       *)
(* called.                                                                 *)
(***************************************************************************)
\* f"# {item}"
Block(item) == <<"#", " ">> \o item

\* "\n\n".join(blocks) for a sequence of blocks.
RECURSIVE Join(_)
Join(blocks) ==
    IF Len(blocks) = 0 THEN <<>>
    ELSE IF Len(blocks) = 1 THEN blocks[1]
    ELSE blocks[1] \o <<"\n", "\n">> \o Join(Tail(blocks))

\* The blocks of a list comprehension, [f"# {item}" for item in references]:
\* one per entry, in list order.
BlockOrdersOfList(refs) == {[i \in 1..Len(refs) |-> Block(refs[i])]}

\* The orders in which join may iterate the set {f"# {item}" for item in
\* references}: a set holds each block once and its iteration order is not
\* specified.
BlockOrders(refs) ==
    LET blocks == {Block(refs[i]) : i \in 1..Len(refs)}
    IN  {f \in [1..Cardinality(blocks) -> blocks] : Range(f) = blocks}

\* The references of the model: the empty string and two others.
RefItems == {<<>>, <<"x">>, <<"y">>}

ReferenceLists == UNION {[1..k -> RefItems] : k \in 0..MaxRefs}

NoPrimer == [kind |-> "none", references |-> <<>>]

\* Lines 93-95.
ConverseCall(refs) ==
    /\ cpc = "idle"
    /\ references' = refs
    /\ \E order \in BlockOrders(refs) :
          /\ compiled_order' = order
          /\ compiled_references' = Join(order)
    /\ cpc' = "compiled"
    /\ UNCHANGED <<conversation_primer, passed_references,
                   slugVars, lockVars, llmVars, histVars, relVars>>

\* Lines 98-99: compiled_references == "".
ConversePrimerGeneral ==
    /\ cpc = "compiled"
    /\ compiled_references = <<>>
    /\ conversation_primer' = [kind |-> "general", references |-> <<>>]
    /\ cpc' = "primed"
    /\ UNCHANGED <<references, compiled_order, compiled_references, passed_references,
                   slugVars, lockVars, llmVars, histVars, relVars>>

\* Lines 100-103.
ConversePrimerNotes ==
    /\ cpc = "compiled"
    /\ compiled_references # <<>>
    /\ conversation_primer' = [kind |-> "notes", references |-> compiled_references]
    /\ cpc' = "primed"
    /\ UNCHANGED <<references, compiled_order, compiled_references, passed_references,
                   slugVars, lockVars, llmVars, histVars, relVars>>

\* Lines 116-123: chat_completion_with_backoff(compiled_references=references).
ConverseComplete ==
    /\ cpc = "primed"
    /\ passed_references' = references
    /\ cpc' = "sent"
    /\ UNCHANGED <<references, compiled_order, compiled_references, conversation_primer,
                   slugVars, lockVars, llmVars, histVars, relVars>>

ConverseInit ==
    /\ cpc = "idle"
    /\ references = <<>>
    /\ compiled_order = <<>>
    /\ compiled_references = <<>>
    /\ conversation_primer = NoPrimer
    /\ passed_references = <<>>

(***************************************************************************)
(* Rows and their foreign keys.  Django's delete() collects the rows that  *)
(* reference a deleted row and applies each foreign key's on_delete:       *)
(* CASCADE deletes the referencing row, SET_NULL sets the key to null.     *)
(* Rows are identified by their primary key; a conversation row also       *)
(* records the agent it was created with (orig), which is not a column.    *)
(***************************************************************************)
NoUser == 0
NoAgent == 0

\* The models with a OneToOneField to KhojUser, on_delete CASCADE.
ConfigKinds == {"UserPaintModelConfig", "UserConversationConfig", "Subscription"}

AgentIds == {a.id : a \in agentRows}

\* KhojUser.objects.create(...)
CreateUser ==
    /\ rowCount < MaxRows
    /\ rowCount' = rowCount + 1
    /\ users' = users \cup {rowCount + 1}
    /\ UNCHANGED <<agentRows, conversations, publicConversations, configs,
                   slugVars, lockVars, llmVars, histVars, chatVars>>

\* An Agent row is stored; creator is a stored user or null (line 99).
CreateAgentRow(creator) ==
    /\ rowCount < MaxRows
    /\ creator \in users \cup {NoUser}
    /\ rowCount' = rowCount + 1
    /\ agentRows' = agentRows \cup {[id |-> rowCount + 1, creator |-> creator]}
    /\ UNCHANGED <<users, conversations, publicConversations, configs,
                   slugVars, lockVars, llmVars, histVars, chatVars>>

\* A Conversation row is stored for a stored user, with a stored agent or
\* none (lines 257 and 262).
CreateConversation(u, a) ==
    /\ rowCount < MaxRows
    /\ u \in users
    /\ a \in AgentIds \cup {NoAgent}
    /\ rowCount' = rowCount + 1
    /\ conversations' = conversations \cup
            {[id |-> rowCount + 1, user |-> u, agent |-> a, orig |-> a]}
    /\ UNCHANGED <<users, agentRows, publicConversations, configs,
                   slugVars, lockVars, llmVars, histVars, chatVars>>

\* A PublicConversation row is stored (lines 267 and 271).
CreatePublicConversation(u, a) ==
    /\ rowCount < MaxRows
    /\ u \in users
    /\ a \in AgentIds \cup {NoAgent}
    /\ rowCount' = rowCount + 1
    /\ publicConversations' = publicConversations \cup
            {[id |-> rowCount + 1, source_owner |-> u, agent |-> a, orig |-> a]}
    /\ UNCHANGED <<users, agentRows, conversations, configs,
                   slugVars, lockVars, llmVars, histVars, chatVars>>

\* A one-to-one config row is stored for a user that has none of its kind:
\* OneToOneField is unique.
CreateConfig(kind, u) ==
    /\ rowCount < MaxRows
    /\ u \in users
    /\ ~\E c \in configs : c.kind = kind /\ c.user = u
    /\ rowCount' = rowCount + 1
    /\ configs' = configs \cup {[id |-> rowCount + 1, kind |-> kind, user |-> u]}
    /\ UNCHANGED <<users, agentRows, conversations, publicConversations,
                   slugVars, lockVars, llmVars, histVars, chatVars>>

\* on_delete=DO_NOTHING in place of SET_NULL: the rows keep the key.
KeepAgentKey(row, gone) == row

\* on_delete=SET_NULL for the agent key of a row, the agents of gone deleted.
SetNullAgent(row, gone) ==
    IF row.agent \in gone THEN [row EXCEPT !.agent = NoAgent] ELSE row

\* Agent.delete(): lines 262 and 271.
DeleteAgent(a) ==
    /\ a \in AgentIds
    /\ agentRows' = {r \in agentRows : r.id # a}
    /\ conversations' = {SetNullAgent(c, {a}) : c \in conversations}
    /\ publicConversations' = {SetNullAgent(c, {a}) : c \in publicConversations}
    /\ UNCHANGED <<users, configs, rowCount,
                   slugVars, lockVars, llmVars, histVars, chatVars>>

\* KhojUser.delete(): the user's agents, conversations, public conversations
\* and configs are deleted with it (lines 71, 99, 247, 257, 267 and the
\* migration's UserPaintModelConfig), and the rows of other users that used
\* one of the deleted agents have their agent set to null.
DeleteUser(u) ==
    /\ u \in users
    /\ LET gone == {r.id : r \in {x \in agentRows : x.creator = u}}
       IN  /\ agentRows' = {r \in agentRows : r.creator # u}
           /\ conversations' =
                  {SetNullAgent(c, gone) : c \in {x \in conversations : x.user # u}}
           /\ publicConversations' =
                  {SetNullAgent(c, gone) :
                      c \in {x \in publicConversations : x.source_owner # u}}
    /\ configs' = {c \in configs : c.user # u}
    /\ users' = users \ {u}
    /\ UNCHANGED <<rowCount, slugVars, lockVars, llmVars, histVars, chatVars>>

RelInit ==
    /\ users = {}
    /\ agentRows = {}
    /\ conversations = {}
    /\ publicConversations = {}
    /\ configs = {}
    /\ rowCount = 0

(***************************************************************************)
(* Initial states.                                                         *)
(***************************************************************************)
ProcInit ==
    /\ pc = [p \in Procs |-> "idle"]
    /\ inst = [p \in Procs |-> NoInst]
    /\ slug = [p \in Procs |-> <<>>]
    /\ observed = [p \in Procs |-> {}]
    /\ trace = [p \in Procs |-> <<>>]
    /\ arg = [p \in Procs |-> <<>>]
    /\ err = [p \in Procs |-> "none"]

\* base, base-0, base-0-1, ...: k + 1 slugs, each the previous one with the
\* next number appended.
RECURSIVE Chain(_, _)
Chain(base, k) ==
    IF k = 0 THEN <<base>>
    ELSE LET c == Chain(base, k - 1) IN Append(c, WithSuffix(c[k], Str(k - 1)))

\* Private agents of user u1, each named by its slug: what u1 leaves in the
\* table by creating agents with these names one after the other.
AgentsNamed(ss) ==
    {[id |-> i, name |-> ss[i], creator |-> "u1", public |-> FALSE, slug |-> ss[i]] :
        i \in 1..Len(ss)}

ConvsNamed(ss) == {[id |-> i, slug |-> ss[i]] : i \in 1..Len(ss)}

StoreInit(rows, crows) ==
    /\ agents = rows
    /\ convs = crows
    /\ lastId = [Agent |-> Cardinality(rows), PublicConversation |-> Cardinality(crows)]


(***************************************************************************)
(* Spec: processes save concurrently; the queries of one save interleave   *)
(* with the queries and inserts of the others.                             *)
(***************************************************************************)
\* What the concurrent callers ask for: two names with the same base slug, by
\* different creators, one of them public, and a name that is itself a
\* suffixed form of that slug.
SmallRequests ==
    {[name |-> <<"a">>, creator |-> "u1", public |-> FALSE],
     [name |-> <<"A">>, creator |-> "u2", public |-> TRUE],
     [name |-> <<"a">>, creator |-> NoCreator, public |-> FALSE],
     [name |-> <<"a", "-", "0">>, creator |-> "u2", public |-> FALSE]}

SmallInit ==
    /\ ProcInit
    /\ LockInit
    /\ ExtractInit
    /\ HistoryInit
    /\ ConverseInit
    /\ RelInit
    /\ requests = SmallRequests
    /\ budget = MaxSaves
    /\ \/ StoreInit({}, {})
       \/ StoreInit(AgentsNamed(Chain(<<"a">>, RandomRange)), ConvsNamed(<<<<"a">>>>))

Init == SmallInit /\ serial = FALSE

Next == \E p \in Procs : Step(p)

Spec == Init /\ [][Next]_vars

(***************************************************************************)
(* SeqSpec: the same saves, one at a time: a save starts only when no      *)
(* other save is between its first query and its insert.                   *)
(***************************************************************************)
InitSeq == SmallInit /\ serial = TRUE

SeqSpec == InitSeq /\ [][Next]_vars

(***************************************************************************)
(* EditSpec: the saves of SeqSpec, and saves of rows already stored, whose  *)
(* name may have been edited.                                               *)
(***************************************************************************)
NextEdit == \E p \in Procs : Step(p) \/ StepEdit(p)

EditSpec == InitSeq /\ [][NextEdit]_vars

(***************************************************************************)
(* NameSpec: saves one at a time, of Agents of one name for every creator  *)
(* and public flag.                                                        *)
(***************************************************************************)
NameRequests ==
    {[name |-> <<"a">>, creator |-> c, public |-> b] : c \in Creators, b \in BOOLEAN}

InitNames ==
    /\ ProcInit
    /\ LockInit
    /\ ExtractInit
    /\ HistoryInit
    /\ ConverseInit
    /\ RelInit
    /\ requests = NameRequests
    /\ budget = MaxSaves
    /\ serial = TRUE
    /\ \/ StoreInit({}, {})
       \/ StoreInit(AgentsNamed(Chain(<<"a">>, RandomRange)), ConvsNamed(<<<<"a">>>>))

NameSpec == InitNames /\ [][Next]_vars

(***************************************************************************)
(* CallSpec: one save of one process, for every name of a bounded set and  *)
(* a choice of table contents built around that name.                      *)
(***************************************************************************)
Alphabet == {"a", "B", " ", "!", "_", "-"}

Strings(n) == UNION {[1..k -> Alphabet] : k \in 0..n}

Pad(k) == [i \in 1..k |-> "a"]

PadLens == {0, SlugMaxLen - 1}

HelloWorld == <<"H", "e", "l", "l", "o", " ", "W", "o", "r", "l", "d">>

CallInputs ==
    {Pad(k) \o w : k \in PadLens, w \in Strings(MaxLen)}
        \cup {HelloWorld, HelloWorld \o <<"!", "!">>}

\* Table contents for a call that passes name s: empty tables; the base slug
\* taken; the base slug and a full chain of suffixed forms taken; the name
\* taken by a public agent.
CallStores(s) ==
    LET ab == AgentBaseSlug(s)
        cb == ConvBaseSlug(s)
        tok == CHOOSE t \in GenerateRandomAlphanumeric(TokenLen) : TRUE
    IN  {<<{}, {}>>,
         <<AgentsNamed(<<ab>>), ConvsNamed(<<cb>>)>>,
         <<AgentsNamed(Chain(ab, RandomRange)), ConvsNamed(<<cb, WithSuffix(cb, tok)>>)>>,
         <<{[id |-> 1, name |-> s, creator |-> "u1", public |-> TRUE, slug |-> ab]}, {}>>}

InitCall ==
    /\ ProcInit
    /\ LockInit
    /\ ExtractInit
    /\ HistoryInit
    /\ ConverseInit
    /\ RelInit
    /\ serial = TRUE
    /\ budget = 1
    /\ \E s \in CallInputs, creator \in {"u1", "u2"} :
          /\ requests = {[name |-> s, creator |-> creator, public |-> FALSE]}
          /\ \E st \in CallStores(s) : StoreInit(st[1], st[2])

NextCall == Step("p1")

CallSpec == InitCall /\ [][NextCall]_vars

\* One save whose steps keep being taken: the handler is synchronous code that
\* runs on until it returns or raises.  The names are those of CallInputs
\* with a last part one character shorter.
FairInputs == {Pad(k) \o w : k \in PadLens, w \in Strings(MaxLen - 1)}

InitFairCall ==
    /\ ProcInit
    /\ LockInit
    /\ ExtractInit
    /\ HistoryInit
    /\ ConverseInit
    /\ RelInit
    /\ serial = TRUE
    /\ budget = 1
    /\ \E s \in FairInputs, creator \in {"u1", "u2"} :
          /\ requests = {[name |-> s, creator |-> creator, public |-> FALSE]}
          /\ \E st \in CallStores(s) : StoreInit(st[1], st[2])

FairCallSpec == InitFairCall /\ [][NextCall]_vars /\ WF_vars(NextCall)

(***************************************************************************)
(* LongSpec: one Agent save of one process, for names at and just under    *)
(* the length limit of the name field.                                     *)
(***************************************************************************)
LongInputs == {Pad(k) \o w : k \in {0, NameMaxLen - 1}, w \in [1..1 -> Alphabet]}

\* Agent tables for a call that passes name s: empty; the base slug taken; the
\* base slug and a full chain of suffixed forms taken; the name taken by a
\* public agent.
LongStores(s) ==
    LET ab == AgentBaseSlug(s)
    IN  {{}, AgentsNamed(<<ab>>), AgentsNamed(Chain(ab, RandomRange)),
         {[id |-> 1, name |-> s, creator |-> "u1", public |-> TRUE, slug |-> ab]}}

InitLong ==
    /\ ProcInit
    /\ LockInit
    /\ ExtractInit
    /\ HistoryInit
    /\ ConverseInit
    /\ RelInit
    /\ serial = TRUE
    /\ budget = 1
    /\ \E s \in LongInputs, creator \in {"u1", "u2"} :
          /\ requests = {[name |-> s, creator |-> creator, public |-> FALSE]}
          /\ \E rows \in LongStores(s) : StoreInit(rows, {})

\* The steps of the save of a new Agent.
StepAgent(p) ==
    \/ \E r \in requests : AgentSave(p, r.name, r.creator, r.public)
    \/ AgentCheckPublic(p)
    \/ AgentCheckPrivate(p)
    \/ AgentLoopRetry(p)
    \/ AgentLoopExhausted(p)
    \/ AgentLoopAssign(p)
    \/ AgentInsert(p)
    \/ Finish(p)

NextLong == StepAgent("p1")

LongSpec == InitLong /\ [][NextLong]_vars

(***************************************************************************)
(* LockSpec: the processes create and delete ProcessLock rows.             *)
(***************************************************************************)
\* No save is asked for.
SlugIdle ==
    /\ ProcInit
    /\ requests = {}
    /\ budget = 0
    /\ serial = TRUE
    /\ StoreInit({}, {})

InitLock == SlugIdle /\ LockInit /\ ExtractInit /\ HistoryInit /\ ConverseInit /\ RelInit

NextLock ==
    \E p \in Procs, name \in Operations :
        \/ LockCreate(p, name)
        \/ LockCreateRefused(p, name)
        \/ LockRelease(p, name)

LockSpec == InitLock /\ [][NextLock]_vars

(***************************************************************************)
(* ExtractSpec: one call of extract_questions_anthropic, for every text    *)
(* and response of a bounded set.                                          *)
(***************************************************************************)
NextExtract ==
    \/ \E t \in Texts, r \in Responses : ExtractCall(t, r)
    \/ ExtractParse
    \/ ExtractFallback

ExtractSpec == InitLock /\ [][NextExtract]_vars

(***************************************************************************)
(* HistorySpec: the chat-history loop of extract_questions_anthropic, for  *)
(* every conversation log of a bounded set.                                *)
(***************************************************************************)
NextHistory ==
    \/ \E log \in Logs : HistoryStart(log)
    \/ HistoryAppend
    \/ HistorySkip
    \/ HistoryDone

HistorySpec == InitLock /\ [][NextHistory]_vars

(***************************************************************************)
(* ConverseSpec: one call of converse_anthropic, for every list of         *)
(* references of a bounded set.                                            *)
(***************************************************************************)
NextConverse ==
    \/ \E refs \in ReferenceLists : ConverseCall(refs)
    \/ ConversePrimerGeneral
    \/ ConversePrimerNotes
    \/ ConverseComplete

ConverseSpec == InitLock /\ [][NextConverse]_vars

(***************************************************************************)
(* DeleteSpec: rows are created and users and agents are deleted, in any   *)
(* order.                                                                  *)
(***************************************************************************)
NextDelete ==
    \/ CreateUser
    \/ \E creator \in users \cup {NoUser} : CreateAgentRow(creator)
    \/ \E u \in users, a \in AgentIds \cup {NoAgent} : CreateConversation(u, a)
    \/ \E u \in users, a \in AgentIds \cup {NoAgent} : CreatePublicConversation(u, a)
    \/ \E kind \in ConfigKinds, u \in users : CreateConfig(kind, u)
    \/ \E a \in AgentIds : DeleteAgent(a)
    \/ \E u \in users : DeleteUser(u)

DeleteSpec == InitLock /\ [][NextDelete]_vars

(***************************************************************************)
(* Claims.                                                                 *)
(***************************************************************************)
Returned(p) == pc[p] \in {"agent_insert", "conv_insert", "saved"}

\* C1: when the saves run one at a time (each handler and its insert without
\* another save in between), no two rows of the Agent table have the same
\* slug and no two rows of the PublicConversation table have the same slug,
\* whatever their creator or public flag.
C1_SlugsDistinctWhenSerial ==
    /\ \A a, b \in agents : a.slug = b.slug => a = b
    /\ \A c, d \in convs : c.slug = d.slug => c = d

\* Two agents whose names have the same base slug are stored, by different
\* creators, with different slugs, and a conversation is stored under a
\* suffixed form of another stored conversation's slug.
C1_Witness ==
    /\ serial
    /\ \E a, b \in agents :
          /\ a.creator # b.creator
          /\ AgentBaseSlug(a.name) = AgentBaseSlug(b.name)
          /\ a.slug # b.slug
    /\ \E c, d \in convs : Len(d.slug) = Len(c.slug) + 1 + TokenLen

\* C2: with saves interleaving, neither the handler nor the table prevents a
\* duplicate: once a handler has assigned a slug its INSERT can always be
\* taken, also when a row with that slug has been stored since the check.
C2_InsertNeverRejected ==
    \A p \in Procs :
        /\ pc[p] = "agent_insert" => ENABLED AgentInsert(p)
        /\ pc[p] = "conv_insert" => ENABLED ConvInsert(p)

\* Both processes saved an entity of the same model, each after an existence
\* check that found its slug free, and the table holds two rows with that slug.
C2_Witness ==
    /\ pc["p1"] = "saved" /\ pc["p2"] = "saved"
    /\ inst["p1"].model = inst["p2"].model
    /\ inst["p1"].slug = inst["p2"].slug
    /\ \A p \in Procs : trace[p][Len(trace[p])] = [slug |-> inst[p].slug, exists |-> FALSE]
    /\ \/ \E a, b \in agents : a # b /\ a.slug = b.slug /\ a.slug = inst["p1"].slug
       \/ \E c, d \in convs : c # d /\ c.slug = d.slug /\ c.slug = inst["p1"].slug

\* C3: when a handler returns normally, instance.slug is the last candidate
\* the call checked, that check found it absent from the table, and every
\* candidate the call checked before it was found present; each check's
\* result is the table's content at the moment of the check.
C3_ChecksInOrder ==
    \A p \in Procs : Returned(p) =>
        /\ Len(trace[p]) >= 1
        /\ trace[p][Len(trace[p])] = [slug |-> inst[p].slug, exists |-> FALSE]
        /\ \A i \in 1..(Len(trace[p]) - 1) : trace[p][i].exists

\* Every check a call records is made on the call's current slug and reports
\* what the handler's table holds at that step.
C3_ChecksReadTable ==
    \A p \in Procs : Len(trace'[p]) = Len(trace[p]) + 1 =>
        LET e == trace'[p][Len(trace'[p])]
        IN  /\ e.slug = slug[p]
            /\ e.exists = IF inst[p].model = "Agent"
                          THEN e.slug \in {a.slug : a \in agents}
                          ELSE e.slug \in {c.slug : c \in convs}

\* C3: the assigned slug is the first candidate of the call, in the order
\* they were generated, that the table did not hold when it was checked.
C3_FirstFreeCandidate == []C3_ChecksInOrder /\ [][C3_ChecksReadTable]_vars

\* A handler returned after two candidates were found taken, and one after
\* its first check, of each model.
C3_Witness ==
    /\ Returned("p1") /\ Returned("p2")
    /\ inst["p1"].model = "Agent" /\ Len(trace["p1"]) = 3
    /\ inst["p2"].model = "PublicConversation" /\ Len(trace["p2"]) = 2

LowerAlnums == Range(LowerLetters) \cup Range(Digits)

IsLowerAlnum(c) == c \in LowerAlnums

IsAlnum(c) == IsLowerAlnum(c) \/ c \in DOMAIN LowerOf

\* [a-z0-9]+(-[a-z0-9]+)*
MatchesSlugPattern(s) ==
    /\ Len(s) >= 1
    /\ \A i \in 1..Len(s) : IsLowerAlnum(s[i]) \/ s[i] = "-"
    /\ s[1] # "-" /\ s[Len(s)] # "-"
    /\ \A i \in 1..(Len(s) - 1) : ~(s[i] = "-" /\ s[i + 1] = "-")

\* C4: for every name that holds a letter or a digit, and every table
\* content, the slug a handler assigns matches [a-z0-9]+(-[a-z0-9]+)* and is
\* at most 50 characters long, suffix included.
C4_SlugWellFormed ==
    \A p \in Procs :
        (Returned(p) /\ \E i \in 1..Len(arg[p]) : IsAlnum(arg[p][i])) =>
            /\ MatchesSlugPattern(inst[p].slug)
            /\ Len(inst[p].slug) <= SlugMaxLen

AllNumbers == 0..(RandomRange - 1)

\* C5: a verify_agent call that has drawn every number of its range and finds
\* its slug taken once more raises the exhaustion error: the instance's slug
\* is left unassigned, the table is left as it is, and the save cannot reach
\* its INSERT.
C5_ExhaustedState ==
    \A p \in Procs : (pc[p] = "failed" /\ err[p] = "SlugExhausted") =>
        /\ observed[p] = AllNumbers
        /\ Len(trace[p]) = RandomRange + 1
        /\ \A i \in 1..Len(trace[p]) : trace[p][i].exists
        /\ inst[p].slug = <<>>
        /\ ~ENABLED AgentInsert(p)

\* The only step such a call can take is the raise.
C5_ExhaustedStep ==
    \A p \in Procs :
        (/\ pc[p] = "agent_loop"
         /\ observed[p] = AllNumbers
         /\ slug[p] \in {a.slug : a \in agents}) =>
            \/ pc'[p] = pc[p] /\ slug'[p] = slug[p] /\ trace'[p] = trace[p]
            \/ /\ pc'[p] = "failed" /\ err'[p] = "SlugExhausted"
               /\ inst'[p] = inst[p]
               /\ agents' = agents

\* C5: exhausting the range raises, assigns no slug and rejects the save, in
\* every state and at every step.
C5_ExhaustionRaises == []C5_ExhaustedState /\ [][C5_ExhaustedStep]_vars

\* A call drew all the numbers of the range, found every candidate taken and
\* ended with the exhaustion error.
C5_Witness ==
    /\ pc["p1"] = "failed" /\ err["p1"] = "SlugExhausted"
    /\ observed["p1"] = AllNumbers
    /\ inst["p1"].model = "Agent"

\* C6: in verify_agent every candidate checked after the base slug is the
\* base slug with exactly one suffix, base-<n>, n a number of the range, and
\* no n is used by two candidates of a call.
C6_CandidatesSingleSuffix ==
    \A p \in Procs : inst[p].model = "Agent" =>
        LET cands == [i \in 1..Len(trace[p]) |-> trace[p][i].slug]
        IN  /\ \A i \in 2..Len(cands) :
                  \E n \in AllNumbers : cands[i] = cands[1] \o <<"-">> \o Str(n)
            /\ \A i, j \in 2..Len(cands) : cands[i] = cands[j] => i = j

\* A decimal numeral of 1 to 3 digits: [0-9]{1,3}.
IsNumeral(d) == Len(d) \in 1..3 /\ \A i \in 1..Len(d) : d[i] \in Range(Digits)

\* The value of a numeral.
RECURSIVE NumeralValue(_)
NumeralValue(d) ==
    IF Len(d) = 0 THEN 0
    ELSE 10 * NumeralValue(SubSeq(d, 1, Len(d) - 1))
            + (CHOOSE v \in 0..9 : Digits[v + 1] = d[Len(d)])

\* s is base, a hyphen and a numeral.
IsNumbered(s, base) ==
    /\ Len(s) > Len(base) + 1
    /\ SubSeq(s, 1, Len(base)) = base
    /\ s[Len(base) + 1] = "-"
    /\ IsNumeral(SubSeq(s, Len(base) + 2, Len(s)))

BaseOnlyTaken(base) ==
    /\ base \in {a.slug : a \in agents}
    /\ \A a \in agents : ~IsNumbered(a.slug, base)

\* C7: when the table holds the base slug and no slug of the form base-<n>,
\* verify_agent does not run out of numbers, and the slug it assigns is
\* base-<n> with n a numeral of 1 to 3 digits whose value is in the range;
\* it is not the base slug.
C7_NumberedSlug ==
    \A p \in Procs :
        (inst[p].model = "Agent" /\ BaseOnlyTaken(AgentBaseSlug(arg[p]))) =>
            /\ err[p] # "SlugExhausted"
            /\ pc[p] = "agent_insert" =>
                  LET base == AgentBaseSlug(arg[p])
                      s == inst[p].slug
                  IN  /\ IsNumbered(s, base)
                      /\ NumeralValue(SubSeq(s, Len(base) + 2, Len(s))) \in AllNumbers
                      /\ s # base

\* verify_agent returned a numbered slug for a name whose base slug, and no
\* numbered form of it, was in the table.
C7_Witness ==
    /\ pc["p1"] = "agent_insert"
    /\ BaseOnlyTaken(AgentBaseSlug(arg["p1"]))
    /\ Len(trace["p1"]) = 2
    /\ Len(arg["p1"]) > 0

\* C8: when no row of the handler's table has the base slug derived from the
\* new instance, the handler does not run out of numbers and returns the base
\* slug itself, unsuffixed, after one existence check.
C8_BaseSlugWhenFree ==
    \A p \in Procs :
        /\ (inst[p].model = "Agent" /\ AgentBaseSlug(arg[p]) \notin {a.slug : a \in agents}) =>
              /\ err[p] # "SlugExhausted"
              /\ pc[p] = "agent_insert" =>
                    /\ inst[p].slug = AgentBaseSlug(arg[p])
                    /\ trace[p] = <<[slug |-> inst[p].slug, exists |-> FALSE]>>
        /\ (pc[p] = "conv_insert" /\ ConvBaseSlug(arg[p]) \notin {c.slug : c \in convs}) =>
              /\ inst[p].slug = ConvBaseSlug(arg[p])
              /\ trace[p] = <<[slug |-> inst[p].slug, exists |-> FALSE]>>

\* verify_public_conversation returned the base slug after one check while
\* the Agent table, not the PublicConversation table, holds that slug.
C8_Witness ==
    /\ pc["p1"] = "conv_insert"
    /\ Len(arg["p1"]) > 0
    /\ inst["p1"].slug = ConvBaseSlug(arg["p1"])
    /\ inst["p1"].slug \in {a.slug : a \in agents}
    /\ inst["p1"].slug \notin {c.slug : c \in convs}
    /\ Len(trace["p1"]) = 1

\* The number of positions of K up to i.
Rank(K, i) == Cardinality({j \in K : j <= i})

\* r is made of the lowercase words of name joined by single hyphens: one
\* character per letter or digit of the name, and one hyphen per run of other
\* characters that has a word before it and a word after it.
IsWordsJoined(r, name) ==
    LET l == Lower(name)
        K == {i \in 1..Len(l) :
                \/ IsAlnum(l[i])
                \/ /\ i > 1 /\ IsAlnum(l[i - 1])
                   /\ \E j \in (i + 1)..Len(l) : IsAlnum(l[j])}
    IN  /\ Len(r) = Cardinality(K)
        /\ \A i \in K : r[Rank(K, i)] = IF IsAlnum(l[i]) THEN l[i] ELSE "-"

\* C9: with no slug in the tables, a name of at most 50 characters that
\* starts with a letter or digit (words separated or followed by spaces and
\* punctuation) is assigned its lowercase words joined by single hyphens, with
\* no leading or trailing separator: "Hello World!!" gets "hello-world".
C9_WordsJoinedByHyphens ==
    \A p \in Procs :
        (/\ pc[p] \in {"agent_insert", "conv_insert"}
         /\ agents = {} /\ convs = {}
         /\ Len(arg[p]) \in 1..SlugMaxLen
         /\ IsAlnum(arg[p][1])) =>
            IsWordsJoined(inst[p].slug, arg[p])

\* r is s with every maximal run of characters outside Kept replaced by one
\* hyphen, cut to its first n characters.
IsCollapseOf(r, s, Kept(_), n) ==
    LET K == {i \in 1..Len(s) : Kept(s[i]) \/ i = 1 \/ Kept(s[i - 1])}
    IN  /\ Len(r) = IF Cardinality(K) < n THEN Cardinality(K) ELSE n
        /\ \A i \in K : Rank(K, i) <= n =>
              r[Rank(K, i)] = IF Kept(s[i]) THEN s[i] ELSE "-"

\* The base slug of a verify_public_conversation call: the first candidate.
AtConvBase(p) == pc[p] = "conv_loop" /\ trace[p] = <<>>

AtAgentBase(p) == pc[p] = "agent_loop" /\ trace[p] = <<>>

\* C11: normalization is idempotent: the base slug either handler computes is
\* left unchanged by computing the base slug of it once more,
\* normalize(normalize(x)) = normalize(x).
C11_NormalizeIdempotent ==
    \A p \in Procs :
        /\ AtConvBase(p) => ConvBaseSlug(slug[p]) = slug[p]
        /\ AtAgentBase(p) => AgentBaseSlug(slug[p]) = slug[p]

\* verify_agent computed a base slug from a name with an upper-case letter and
\* two spaces, which normalization changed.
C11_Witness ==
    /\ AtAgentBase("p1")
    /\ slug["p1"] # arg["p1"]
    /\ "B" \in Range(arg["p1"])
    /\ \E i \in 1..(Len(arg["p1"]) - 1) : arg["p1"][i] = " " /\ arg["p1"][i + 1] = " "

\* C12: a name whose base slug is empty is rejected before the retry loop: the
\* call makes no existence check, assigns no slug and stores no row.
C12_EmptyBaseRejected ==
    \A p \in Procs :
        (\/ inst[p].model = "Agent" /\ AgentBaseSlug(arg[p]) = <<>>
         \/ inst[p].model = "PublicConversation" /\ arg[p] # None
                /\ ConvBaseSlug(arg[p]) = <<>>) =>
            /\ trace[p] = <<>>
            /\ pc[p] \notin {"agent_loop", "conv_loop", "agent_insert", "conv_insert", "saved"}

\* C14: a verify_agent call makes at most one existence check for the base
\* slug and one per number of the range, whatever the table holds and however
\* other calls change it meanwhile, and while it is in the loop it can always
\* take its next step (retry, assign or raise): it never loops forever.
C14_BoundedChecks ==
    \A p \in Procs : inst[p].model = "Agent" =>
        /\ Len(trace[p]) <= RandomRange + 1
        /\ Cardinality(observed[p]) <= RandomRange
        /\ pc[p] = "agent_loop" =>
              /\ Len(trace[p]) = Cardinality(observed[p])
              /\ ENABLED (AgentLoopRetry(p) \/ AgentLoopExhausted(p) \/ AgentLoopAssign(p))

\* A call made the largest number of checks, one per number and one for the
\* base, while another call was in flight, and then raised.
C14_Witness ==
    \E p, q \in Procs :
        /\ p # q
        /\ inst[p].model = "Agent"
        /\ Len(trace[p]) = RandomRange + 1
        /\ pc[p] = "failed"
        /\ err[p] = "SlugExhausted"
        /\ pc[q] # "idle"

\* The characters of a seven-character token.
TokenChars == Range(characters)

\* C17: in verify_public_conversation every candidate checked after the base
\* slug is the base slug, a hyphen and exactly one token of exactly seven
\* characters of 0-9a-z.
C17_CandidatesSingleToken ==
    \A p \in Procs : inst[p].model = "PublicConversation" =>
        \A i \in 2..Len(trace[p]) :
            LET b == trace[p][1].slug
                c == trace[p][i].slug
            IN  /\ Len(c) = Len(b) + 1 + TokenLen
                /\ SubSeq(c, 1, Len(b)) = b
                /\ c[Len(b) + 1] = "-"
                /\ \A j \in (Len(b) + 2)..Len(c) : c[j] \in TokenChars

C13_ConvLoopTerminates ==
    /\ [](\A p \in Procs : inst[p].model = "PublicConversation" =>
              /\ Len(trace[p]) <= Cardinality(convs) + 1
              /\ \A i, j \in 1..Len(trace[p]) :
                    i < j => Len(trace[p][i].slug) < Len(trace[p][j].slug))
    /\ pc["p1"] = "conv_loop" ~>
          \/ pc["p1"] = "conv_insert" /\ inst["p1"].slug \notin ConvSlugs
          \/ pc["p1"] = "failed"

\* The handler returned after two retries, with a slug the table does not hold.
C13_Witness ==
    /\ pc["p1"] = "conv_insert"
    /\ Len(trace["p1"]) = 3
    /\ trace["p1"][1].exists /\ trace["p1"][2].exists /\ ~trace["p1"][3].exists
    /\ inst["p1"].slug \notin ConvSlugs
    /\ Cardinality(convs) = 2

\* The part of the state a process's own steps change.
Locals(p) == <<pc[p], inst[p], slug[p], observed[p], trace[p], arg[p], err[p]>>

\* The states from which a process's next step is the INSERT or UPDATE of
\* save(), after the handler has returned.
WriteStates == {"agent_insert", "conv_insert", "agent_update", "conv_update"}

\* C15: the slug is computed only at creation.  A save of a stored Agent or
\* PublicConversation, also one whose name was edited, makes no name check and
\* no existence check, raises nothing and leaves instance.slug as loaded; no
\* step ever changes the slug of a stored row.
C15_SlugOnlyAtCreation ==
    /\ [](\A p \in Procs : (inst[p].model # "none" /\ ~inst[p].adding) =>
              /\ pc[p] \in {"agent_update", "conv_update", "saved"}
              /\ trace[p] = <<>> /\ observed[p] = {} /\ slug[p] = <<>>
              /\ err[p] = "none"
              /\ \A a \in agents :
                    (inst[p].model = "Agent" /\ a.id = inst[p].pk) => a.slug = inst[p].slug
              /\ \A c \in convs :
                    (inst[p].model = "PublicConversation" /\ c.id = inst[p].pk) =>
                        c.slug = inst[p].slug)
    /\ [][/\ \A a \in agents : \A b \in agents' : a.id = b.id => a.slug = b.slug
          /\ \A c \in convs : \A d \in convs' : c.id = d.id => c.slug = d.slug]_vars

\* A stored Agent was renamed and saved: its row has the new name and the slug
\* of the old one.
C15_Witness ==
    \E p \in Procs : \E a \in agents :
        /\ pc[p] = "saved"
        /\ ~inst[p].adding
        /\ a.id = inst[p].pk
        /\ a.name = <<"a", "-", "0">>
        /\ a.slug = <<"a">>

\* C16: running a handler never changes the store.  A step of a process that
\* is inside a handler (not at the INSERT or UPDATE that follows it), whether
\* it goes on, returns or raises, leaves both tables and the id counters as
\* they were, and a call that failed has no write left to make.
C16_HandlerLeavesStore ==
    /\ [][\A p \in Procs :
              (Locals(p)' # Locals(p) /\ pc[p] \notin WriteStates) =>
                  UNCHANGED <<agents, convs, lastId>>]_vars
    /\ [](\A p \in Procs : pc[p] = "failed" => ~ENABLED (AgentInsert(p) \/ ConvInsert(p)))

\* A creation failed after its existence checks and no row of the instance is
\* in the table.
C16_Witness ==
    \E p \in Procs :
        /\ pc[p] = "failed"
        /\ trace[p] # <<>>
        /\ inst[p].model = "Agent"
        /\ \A a \in agents : ~(a.name = inst[p].name /\ a.creator = inst[p].creator)

C21_SameCreatorNameRejected ==
    \A p \in Procs :
        (/\ inst[p].model = "Agent"
         /\ inst[p].adding
         /\ pc[p] # "saved"
         /\ \E a \in agents : a.name = inst[p].name /\ a.creator = inst[p].creator) =>
            /\ pc[p] \in {"agent_check_public", "agent_check_private", "failed"}
            /\ trace[p] = <<>>
            /\ inst[p].slug = <<>>
            /\ pc[p] = "failed" => err[p] \in {"PublicNameExists", "PrivateNameExists"}

\* A public admin-managed Agent (null creator) was rejected for the name of a
\* stored private admin-managed Agent.
C21_Witness ==
    \E p \in Procs :
        /\ pc[p] = "failed"
        /\ err[p] = "PrivateNameExists"
        /\ inst[p].creator = NoCreator
        /\ inst[p].public
        /\ \E a \in agents : a.name = inst[p].name /\ a.creator = NoCreator /\ ~a.public

\* C22: after creations that run one at a time, no two stored Agents of one
\* name are both public and no two have the same creator; a public Agent
\* shares its name only with private Agents of other creators that were
\* created before it.
C22_NamesUniquePerScope ==
    \A a, b \in agents : (a.id # b.id /\ a.name = b.name) =>
        /\ ~(a.public /\ b.public)
        /\ a.creator # b.creator
        /\ (a.public /\ ~b.public) => b.id < a.id

\* A public Agent is stored next to two private Agents of its name, of other
\* creators, created before it.
C22_Witness ==
    \E a, b, c \in agents :
        /\ a.name = b.name /\ b.name = c.name
        /\ a.public /\ ~b.public /\ ~c.public
        /\ b.id < c.id /\ c.id < a.id
        /\ Cardinality({a.creator, b.creator, c.creator}) = 3

\* C23: for a name within the 200 characters of the name field, the slug
\* verify_agent assigns fits the 200 characters of Agent.slug, and the slug
\* verify_public_conversation assigns fits the 200 characters of
\* PublicConversation.slug, whatever the tables hold.
C23_SlugFitsField ==
    \A p \in Procs :
        (pc[p] \in {"agent_insert", "conv_insert", "saved"} /\ Len(arg[p]) <= NameMaxLen) =>
            /\ inst[p].model = "Agent" => Len(inst[p].slug) <= SlugFieldLen
            /\ inst[p].model = "PublicConversation" => Len(inst[p].slug) <= ConvSlugFieldLen

\* C24: verify_public_conversation never raises its "Unable to generate a
\* unique slug" error and has no attempt cap: the only failure of a call is the
\* AttributeError of a None slug, and whenever the candidate is taken the
\* handler can draw one more token and stay in the loop, however many it has
\* drawn.
C24_ConvNeverExhausted ==
    \A p \in Procs :
        /\ err[p] # "ConvSlugExhausted"
        /\ (inst[p].model = "PublicConversation" /\ pc[p] = "failed") =>
              err[p] = "AttributeError" /\ arg[p] = None
        /\ (pc[p] = "conv_loop" /\ ConvSlugExists(slug[p])) =>
              ENABLED (ConvLoopRetry(p) /\ pc'[p] = "conv_loop")

\* A call drew the same token twice, found both candidates' predecessors
\* taken, and returned: no draw was refused for having been observed.
C24_Witness ==
    /\ pc["p1"] = "conv_insert"
    /\ Len(trace["p1"]) = 3
    /\ Cardinality(observed["p1"]) = 1
    /\ err["p1"] = "none"

\* The indices of the log entries that belong in the history: the last
\* HistoryWindow positions of the log, in order, that hold an entry by khoj.
HistoryIndices(log) ==
    SelectSeq([i \in 1..Len(log) |-> i],
              LAMBDA i : i > Len(log) - HistoryWindow /\ log[i].by = "khoj")

\* C25: when the loop has finished, the chat history holds, for each entry by
\* khoj among the last four entries of the log and in log order, the entry's
\* query and then its message, and nothing else; the log is never modified.
C25_HistoryFromLastFour ==
    /\ [](hpc = "done" =>
            LET idx == HistoryIndices(conversation_log)
            IN  /\ Len(chat_history) = 2 * Len(idx)
                /\ \A j \in 1..Len(idx) :
                      /\ chat_history[2 * j - 1] =
                            [speaker |-> "Human", line |-> conversation_log[idx[j]].query]
                      /\ chat_history[2 * j] =
                            [speaker |-> "Assisstant",
                             line |-> conversation_log[idx[j]].message])
    /\ [][hpc # "idle" => conversation_log' = conversation_log]_vars

\* The loop finished on a log of five entries whose first, by khoj, is too old
\* and whose third is by the user: the history has the second, fourth and
\* fifth.
C25_Witness ==
    /\ hpc = "done"
    /\ Len(conversation_log) = 5
    /\ conversation_log[1] = [by |-> "khoj", query |-> "q1", message |-> "m1"]
    /\ conversation_log[2] = [by |-> "khoj", query |-> "q2", message |-> "m2"]
    /\ conversation_log[3].by = "you"
    /\ conversation_log[4].by = "khoj" /\ conversation_log[5].by = "khoj"
    /\ Len(chat_history) = 6
    /\ chat_history[1].line = "q2"

AgentKeyValid(a) == a = NoAgent \/ a \in AgentIds

\* C27: no stored row references a deleted row, each user has at most one
\* config of each kind, and a delete removes a Conversation or
\* PublicConversation only together with its user: the rows of the remaining
\* users are kept, their agent unchanged or, if the agent is gone, null.
C27_NoDanglingReference ==
    /\ [](/\ \A r \in agentRows : r.creator = NoUser \/ r.creator \in users
          /\ \A c \in conversations : c.user \in users /\ AgentKeyValid(c.agent)
          /\ \A c \in publicConversations :
                c.source_owner \in users /\ AgentKeyValid(c.agent)
          /\ \A c \in configs : c.user \in users
          /\ \A c, d \in configs : (c.kind = d.kind /\ c.user = d.user) => c.id = d.id)
    /\ [][/\ \A c \in conversations : c.user \in users' =>
                \E d \in conversations' :
                    /\ d.id = c.id /\ d.user = c.user
                    /\ d.agent = c.agent \/ (d.agent = NoAgent /\ c.agent \notin AgentIds')
          /\ \A c \in publicConversations : c.source_owner \in users' =>
                \E d \in publicConversations' :
                    /\ d.id = c.id /\ d.source_owner = c.source_owner
                    /\ d.agent = c.agent \/ (d.agent = NoAgent /\ c.agent \notin AgentIds')
          /\ \A c \in configs : c.user \in users' => c \in configs']_vars

\* After two users, an agent and a conversation were created and a user was
\* deleted, the agent is gone and the conversation that used it is stored with
\* a null agent.
C27_Witness ==
    \E c \in conversations :
        /\ c.agent = NoAgent
        /\ c.orig # NoAgent
        /\ c.orig \notin AgentIds
        /\ Cardinality(users) = 1
        /\ rowCount = 4

=============================================================================
